---- MODULE Spec2Model ----
(***************************************************************************)
(* Model of multipatch_analysis/qc.py: the two QC predicates               *)
(* recording_qc_pass and pulse_response_qc_pass.                           *)
(*                                                                         *)
(* Quantities are integers on a fixed grid, so that every comparison of    *)
(* the source against a literal threshold is an exact integer comparison:  *)
(*   currents    in pA  (1e-12 A):  800e-12 A  is  800                     *)
(*   potentials  in uV  (1e-6 V):   -85e-3 V   is  -85000                  *)
(*   times       in us  (1e-6 s):   8e-3 s     is  8000                    *)
(* baseline_rms_noise and the samples of 'primary' are in the unit of the  *)
(* quantity the clamp mode records: uV for 'ic', pA for 'vc'.  The samples *)
(* of 'command' are potentials (uV).                                       *)
(***************************************************************************)
EXTENDS Integers, Sequences, FiniteSets

VARIABLES rec, window, n_spikes, adjacent_pulses, called, result

vars == <<rec, window, n_spikes, adjacent_pulses, called, result>>

\* ------------------------------------------------------------------ bounds
\* longest 'primary'/'command' array whose samples are drawn freely
MaxLen == 2
\* longest adjacent_pulses list
MaxAdj == 2
\* largest presynaptic spike count
MaxSpikes == 1
\* longest array of the zero-sample family (besides the 100-sample arrays)
MaxZeroLen == 21

\* ------------------------------------------------------- program constants
\* qc.py:25  -800e-12 / 800e-12 A
CurrentLimit == 800
\* qc.py:28  -85e-3 V
PotentialMin == -85000
\* qc.py:28  -45e-3 V
PotentialMax == -45000
\* qc.py:30  5e-3 V
NoiseLimitIC == 5000
\* qc.py:33  200e-12 A
NoiseLimitVC == 200
\* qc.py:37  len(data) // 10
ZeroDivisor == 10
\* qc.py:87  1.5e-3 V
StdLimitIC == 1500
\* qc.py:89  -40e-3 V
MaxLimitIC == -40000
\* qc.py:94  15e-12 A
StdLimitVC == 15
\* qc.py:100  8e-3 s
MinPulseGap == 8000
\* qc.py:60  n_spikes : int or None; None is no count at all, kept apart
\* from every count 0, 1, 2, ... by the value -1
None == -1

\* ----------------------------------------------------------------- helpers
Abs(x) == IF x < 0 THEN -x ELSE x

Min(a, b) == IF a < b THEN a ELSE b

\* (data == 0).sum(): the number of samples equal to 0
CountZeros(data) == Cardinality({i \in 1..Len(data) : data[i] = 0})

\* data[window[0]:window[1]]: python's half-open, 0-based slice
Slice(data, w) == SubSeq(data, w[1] + 1, w[2])

\* k-th smallest sample (1-based) of a non-empty array
KthSmallest(data, k) ==
    CHOOSE v \in {data[i] : i \in 1..Len(data)} :
        /\ Cardinality({i \in 1..Len(data) : data[i] < v}) < k
        /\ Cardinality({i \in 1..Len(data) : data[i] <= v}) >= k

\* twice the median (the median of an even number of samples is the mean of
\* the two middle ones, which need not be on the grid)
Median2x(data) ==
    LET n == Len(data)
    IN  IF n % 2 = 1
        THEN 2 * KthSmallest(data, (n + 1) \div 2)
        ELSE KthSmallest(data, n \div 2) + KthSmallest(data, n \div 2 + 1)

RECURSIVE Sum(_, _)
Sum(data, i) == IF i > Len(data) THEN 0 ELSE data[i] + Sum(data, i + 1)

\* d * d, saturated at cap + 1 (46340 * 46340 is the largest square below
\* 2^31; cap is below it, so the comparison against cap stays exact)
SqCapped(d, cap) ==
    IF Abs(d) > 46340 THEN cap + 1 ELSE Min(Abs(d) * Abs(d), cap + 1)

RECURSIVE SumSqDev(_, _, _, _)
SumSqDev(data, total, i, cap) ==
    IF i > Len(data) THEN 0
    ELSE Min(cap + 1, SqCapped(Len(data) * data[i] - total, cap)
                      + SumSqDev(data, total, i + 1, cap))

\* data.std() > limit, for the population standard deviation (numpy's
\* default, ddof = 0):  sqrt(sum((x - mean)^2) / n) > limit
\*   <=>  sum((n*x - sum(x))^2) > limit^2 * n^3
StdExceeds(data, limit) ==
    LET n   == Len(data)
        cap == limit * limit * n * n * n
    IN  SumSqDev(data, Sum(data, 1), 1, cap) > cap

\* data.max() > limit
MaxExceeds(data, limit) == \E i \in 1..Len(data) : data[i] > limit

\* -------------------------------------------------------- recording_qc_pass
\* qc.py:25
CurrentOutOfRange(r) ==
    r.baseline_current < -CurrentLimit \/ r.baseline_current > CurrentLimit

\* variant of qc.py:28 with <= and >=: the limits themselves rejected
PotentialOutOfRange_Strict(r) ==
    r.baseline_potential <= PotentialMin \/ r.baseline_potential >= PotentialMax

\* qc.py:28
PotentialOutOfRange(r) ==
    r.baseline_potential < PotentialMin \/ r.baseline_potential > PotentialMax

\* qc.py:30
NoiseTooHighIC(r) == r.baseline_rms_noise > NoiseLimitIC

\* variant of qc.py:33 with >=: noise at the limit rejected
NoiseTooHighVC_Inclusive(r) == r.baseline_rms_noise >= NoiseLimitVC

\* qc.py:33
NoiseTooHighVC(r) == r.baseline_rms_noise > NoiseLimitVC

\* variant of qc.py:37 with >=: a zero count at the threshold rejected
TooManyZeros_Inclusive(data) == CountZeros(data) >= Len(data) \div ZeroDivisor

\* qc.py:36-37
TooManyZeros(data) == CountZeros(data) > Len(data) \div ZeroDivisor

recording_qc_pass(r) ==
    IF CurrentOutOfRange(r) THEN FALSE
    ELSE IF r.clamp_mode = "ic" /\ PotentialOutOfRange(r) THEN FALSE
    ELSE IF r.clamp_mode = "ic" /\ NoiseTooHighIC(r) THEN FALSE
    ELSE IF r.clamp_mode = "vc" /\ NoiseTooHighVC(r) THEN FALSE
    ELSE IF TooManyZeros(r.primary) THEN FALSE
    ELSE TRUE

\* --------------------------------------------------- pulse_response_qc_pass
\* a returned pair (ex_qc_pass, in_qc_pass)
Return(pair) == [exc |-> "", val |-> pair]

\* raise TypeError('Unsupported clamp mode %s' % post_rec.clamp_mode)
Raise(err) == [exc |-> err, val |-> <<>>]

\* variant of qc.py:76 that never takes the branch (the prerequisite dropped)
RecordingRejected_Never(r) == FALSE

\* qc.py:76  recording_qc_pass(post_rec) is False
RecordingRejected(r) == recording_qc_pass(r) = FALSE

\* variant of qc.py:80 written `not n_spikes`: None counts as no spike
NoSpikes_Falsy(n) == n = 0 \/ n = None

\* qc.py:80  n_spikes == 0 (None == 0 is False in python)
NoSpikes(n) == n = 0

\* variant of qc.py:91 written `else:`: every mode but 'ic' handled as 'vc'
UnsupportedClampMode_Never(r) == FALSE

\* qc.py:84, 91, 96  neither the 'ic' nor the 'vc' branch is taken
UnsupportedClampMode(r) == r.clamp_mode # "ic" /\ r.clamp_mode # "vc"

\* qc.py:84-95  the window is noisy: data.std() over the limit of the mode,
\* or (current clamp) data.data.max() over -40 mV
WindowNoisy(r, w) ==
    IF r.clamp_mode = "ic"
    THEN \/ StdExceeds(Slice(r.primary, w), StdLimitIC)
         \/ MaxExceeds(Slice(r.primary, w), MaxLimitIC)
    ELSE StdExceeds(Slice(r.primary, w), StdLimitVC)

\* variant of qc.py:93 taking the median of 'primary' in both modes
WindowBase2x_Primary(r, w) == Median2x(Slice(r.primary, w))

\* qc.py:86, 93  twice `base`: the median of the windowed 'primary' in
\* current clamp, of the windowed 'command' in voltage clamp
WindowBase2x(r, w) ==
    IF r.clamp_mode = "ic"
    THEN Median2x(Slice(r.primary, w))
    ELSE Median2x(Slice(r.command, w))

\* variant of qc.py:100 without abs(): t < 8e-3
AdjacentTooClose_NoAbs(adj) == \E i \in 1..Len(adj) : adj[i] < MinPulseGap

\* qc.py:100  any([abs(t) < 8e-3 for t in adjacent_pulses])
AdjacentTooClose(adj) == \E i \in 1..Len(adj) : Abs(adj[i]) < MinPulseGap

\* variant of qc.py:104 with the -80 mV of the docstring (qc.py:50)
limits_docstring == << <<-80000, -45000>>, <<-60000, -45000>> >>

\* qc.py:104  [[-85e-3, -45e-3], [-60e-3, -45e-3]]
limits == << <<-85000, -45000>>, <<-60000, -45000>> >>

\* qc.py:108  (bmin < base < bmax) and (bmin < base2 < bmax), base given twice
InLimits(base2x, base2, lim) ==
    /\ 2 * lim[1] < base2x /\ base2x < 2 * lim[2]
    /\ lim[1] < base2 /\ base2 < lim[2]

\* qc.py:107-108
qc_pass(base2x, base2) ==
    <<InLimits(base2x, base2, limits[1]), InLimits(base2x, base2, limits[2])>>

pulse_response_qc_pass(post_rec, w, n, adj) ==
    IF RecordingRejected(post_rec) THEN Return(<<FALSE, FALSE>>)
    ELSE IF NoSpikes(n) THEN Return(<<FALSE, FALSE>>)
    ELSE IF UnsupportedClampMode(post_rec) THEN Raise("TypeError")
    ELSE IF WindowNoisy(post_rec, w) THEN Return(<<FALSE, FALSE>>)
    ELSE IF AdjacentTooClose(adj) THEN Return(<<FALSE, FALSE>>)
    ELSE Return(qc_pass(WindowBase2x(post_rec, w), post_rec.baseline_potential))

\* ------------------------------------------------------------------ inputs
ClampModes == {"ic", "vc", "xyz"}

\* baseline_current (pA): at, inside and outside the limits
CurrentValues == {-801, -800, -799, 0, 800, 801}

\* baseline_potential (uV): around -85 mV, -60 mV and -45 mV
PotentialValues == {-85001, -85000, -84999, -60000, -59999, -45000, -44999}

\* baseline_rms_noise: around the limit of either mode
NoiseValues == {200, 201, 5000, 5001}

\* samples of 'primary': potentials (uV) in current clamp, currents (pA)
\* otherwise
PrimarySamples(mode) ==
    IF mode = "ic" THEN {-60000, -59999, -56999} ELSE {10, 41}

\* samples of 'command': the holding potential (uV) in voltage clamp, no
\* commanded current otherwise
CommandSamples(mode) ==
    IF mode = "vc" THEN {-85000, -59999} ELSE {0}

\* adjacent pulse times (us)
PulseTimes == {-8000, 5000, 8000}

Arrays(samples, len) == [1..len -> samples]

\* every window 0 <= start < stop <= len
Windows(len) == {<<a, b>> : a \in 0..(len - 1), b \in 1..len} \cap
                {w \in (0..len) \X (0..len) : w[1] < w[2]}

SpikeCounts == {None} \cup 0..MaxSpikes

PulseLists == UNION {Arrays(PulseTimes, k) : k \in 0..MaxAdj}

\* a sweep of len samples, the first z of them exactly 0
ZeroArray(len, z) == [i \in 1..len |-> IF i <= z THEN 0 ELSE -70000 - i]

ZeroLengths == 1..MaxZeroLen \cup {100}

ZeroArrays ==
    {ZeroArray(len, z) : <<len, z>> \in
        {p \in ZeroLengths \X (0..12) : p[2] <= Min(p[1], p[1] \div 10 + 2)}}

NoResult == [exc |-> "", val |-> <<>>]

\* recordings with every scalar field around its limits and a sweep of the
\* zero-sample family
InitRecording ==
    /\ rec \in [clamp_mode : ClampModes,
                baseline_current : CurrentValues,
                baseline_potential : PotentialValues,
                baseline_rms_noise : NoiseValues,
                primary : ZeroArrays,
                command : {<<0>>}]
    /\ window = <<0, 1>>
    /\ n_spikes \in {None, 0}
    /\ adjacent_pulses = <<>>
    /\ called = "none"
    /\ result = NoResult

\* recordings with short sweeps of freely drawn samples, and every window,
\* spike count and adjacent-pulse list
InitPulse ==
    /\ \E mode \in ClampModes, len \in 1..MaxLen :
          /\ rec \in [clamp_mode : {mode},
                      baseline_current : {0, 801},
                      baseline_potential :
                          {-85000, -84999, -60000, -59999, -45000},
                      baseline_rms_noise : {100},
                      primary : Arrays(PrimarySamples(mode), len),
                      command : Arrays(CommandSamples(mode), len)]
          /\ window \in Windows(len)
    /\ n_spikes \in SpikeCounts
    /\ adjacent_pulses \in PulseLists
    /\ called = "none"
    /\ result = NoResult

Init == InitRecording

\* ----------------------------------------------------------------- actions
CallRecordingQC ==
    /\ called = "none"
    /\ called' = "recording_qc_pass"
    /\ result' = Return(<<recording_qc_pass(rec)>>)
    /\ UNCHANGED <<rec, window, n_spikes, adjacent_pulses>>

CallPulseResponseQC ==
    /\ called = "none"
    /\ called' = "pulse_response_qc_pass"
    /\ result' = pulse_response_qc_pass(rec, window, n_spikes, adjacent_pulses)
    /\ UNCHANGED <<rec, window, n_spikes, adjacent_pulses>>

Next == CallRecordingQC \/ CallPulseResponseQC

Spec == Init /\ [][Next]_vars

SpecPulse == InitPulse /\ [][Next]_vars

\* ------------------------------------------------------------------ claims
DoneRecording == called = "recording_qc_pass"

DonePulse == called = "pulse_response_qc_pass"

Passed == result = Return(<<TRUE>>)

Failed == result = Return(<<FALSE>>)

BothFalse == result = Return(<<FALSE, FALSE>>)

\* baseline_current strictly inside (-800 pA, 800 pA)
CurrentInside == -800 < rec.baseline_current /\ rec.baseline_current < 800

\* the zero samples of 'primary' are at most 10% of the sample count
ZerosWithinLimit == 10 * CountZeros(rec.primary) <= Len(rec.primary)

\* C1: recording_qc_pass returns False for every recording whose
\* baseline_current is exactly +800 pA or exactly -800 pA, whatever the clamp
\* mode and the other fields.
C1_LimitCurrentFails ==
    (DoneRecording /\ rec.baseline_current \in {-800, 800}) => Failed

\* C2 as stated: a current-clamp recording with no other violation fails at
\* baseline_potential = -85 mV exactly and passes at -84.999 mV.
C2_LimitPotentialFails ==
    (/\ DoneRecording /\ rec.clamp_mode = "ic"
     /\ CurrentInside /\ rec.baseline_rms_noise <= 5000 /\ ZerosWithinLimit)
    => /\ rec.baseline_potential = -85000 => Failed
       /\ rec.baseline_potential = -84999 => Passed

\* C2 amended: a current-clamp recording with no other violation passes
\* exactly when -85 mV <= baseline_potential <= -45 mV: it passes at -85 mV
\* and at -84.999 mV and fails at -85.001 mV, the range being inclusive.
C2_PotentialRangeInclusive ==
    (/\ DoneRecording /\ rec.clamp_mode = "ic"
     /\ CurrentInside /\ rec.baseline_rms_noise <= 5000 /\ ZerosWithinLimit)
    => (Passed <=> (-85000 <= rec.baseline_potential
                    /\ rec.baseline_potential <= -45000))

C2_Witness ==
    /\ DoneRecording /\ rec.clamp_mode = "ic"
    /\ rec.baseline_potential = -85000 /\ Passed

C4_ZeroCountThreshold ==
    (/\ DoneRecording
     /\ ~CurrentOutOfRange(rec)
     /\ (rec.clamp_mode = "ic"
            => (~PotentialOutOfRange(rec) /\ ~NoiseTooHighIC(rec)))
     /\ (rec.clamp_mode = "vc" => ~NoiseTooHighVC(rec)))
    => (Failed <=> CountZeros(rec.primary) > Len(rec.primary) \div 10)

C4_Witness ==
    /\ DoneRecording /\ Failed /\ CurrentInside
    /\ rec.clamp_mode = "xyz"
    /\ Len(rec.primary) = 100 /\ CountZeros(rec.primary) = 11

\* the unsupported-clamp-mode error
Raised == result = Raise("TypeError")

\* a returned pair of booleans, nothing raised
ReturnedPair == result.exc = "" /\ result.val \in BOOLEAN \X BOOLEAN

\* the error path of pulse_response_qc_pass is taken
ErrorCase ==
    /\ rec.clamp_mode \notin {"ic", "vc"}
    /\ recording_qc_pass(rec)
    /\ n_spikes # 0

\* some adjacent pulse is less than 8 ms away
SomePulseWithin8ms ==
    \E i \in 1..Len(adjacent_pulses) :
        -8000 < adjacent_pulses[i] /\ adjacent_pulses[i] < 8000

\* C5: pulse_response_qc_pass returns (False, False) whenever
\* recording_qc_pass of the same recording is False, for every window, spike
\* count (None included), adjacent_pulses list and clamp mode (an unrecognized
\* one included: no error is raised then).
C5_RecordingFailureShortCircuits ==
    (DonePulse /\ ~recording_qc_pass(rec)) => BothFalse

C5_Witness ==
    /\ DonePulse /\ ~recording_qc_pass(rec) /\ BothFalse
    /\ rec.clamp_mode = "xyz" /\ n_spikes = None

\* C6: pulse_response_qc_pass raises the unsupported-clamp-mode error exactly
\* when clamp_mode is neither 'ic' nor 'vc', the recording passes
\* recording_qc_pass and spike_count is not 0; otherwise it returns a pair of
\* booleans; recording_qc_pass never raises, whatever the clamp mode.
C6_ErrorExactlyForUnsupportedMode ==
    /\ DonePulse => IF ErrorCase THEN Raised ELSE ReturnedPair
    /\ DoneRecording => (Passed \/ Failed)

C6_Witness ==
    /\ DonePulse /\ Raised
    /\ rec.clamp_mode = "xyz" /\ n_spikes = None

\* C7: pulse_response_qc_pass returns (False, False) whenever spike_count is
\* 0; with spike_count None the result is the one of any positive spike_count
\* with otherwise identical inputs.
C7_ZeroSpikesFailNoneSkips ==
    /\ (DonePulse /\ n_spikes = 0) => BothFalse
    /\ (DonePulse /\ n_spikes = None) =>
          \A k \in 1..MaxSpikes :
              result = pulse_response_qc_pass(rec, window, k, adjacent_pulses)

C7_Witness ==
    /\ DonePulse /\ n_spikes = None
    /\ result = Return(<<TRUE, TRUE>>)

\* C8 as stated: any adjacent_pulses entry with |t| < 8 ms forces
\* (False, False); with every entry at |t| >= 8 ms the result is the one the
\* other steps decide.
C8_ClosePulseForcesBothFalse ==
    DonePulse =>
        IF SomePulseWithin8ms
        THEN BothFalse
        ELSE result = pulse_response_qc_pass(rec, window, n_spikes, <<>>)

\* C8 amended: any adjacent_pulses entry with |t| < 8 ms forces
\* (False, False) unless the unsupported-clamp-mode error is raised first
\* (clamp_mode neither 'ic' nor 'vc', recording passing recording_qc_pass,
\* spike_count not 0); with every entry at |t| >= 8 ms (8 ms and -8 ms
\* included, or no entry) the result is the one the other steps decide.
C8_ClosePulseFailsUnlessError ==
    DonePulse =>
        IF SomePulseWithin8ms
        THEN IF ErrorCase THEN Raised ELSE BothFalse
        ELSE result = pulse_response_qc_pass(rec, window, n_spikes, <<>>)

C8_Witness ==
    /\ DonePulse /\ ~SomePulseWithin8ms
    /\ adjacent_pulses = <<8000, -8000>>
    /\ result = Return(<<TRUE, TRUE>>)

\* steps 1-4 of pulse_response_qc_pass all pass
Steps1To4Pass ==
    /\ recording_qc_pass(rec)
    /\ n_spikes # 0
    /\ rec.clamp_mode \in {"ic", "vc"}
    /\ ~WindowNoisy(rec, window)
    /\ ~SomePulseWithin8ms

\* twice a median lies strictly inside (lo, hi)
Median2xInside(m2x, lo, hi) == 2 * lo < m2x /\ m2x < 2 * hi

\* baseline_potential lies strictly inside (lo, hi)
PotentialInside(lo, hi) ==
    lo < rec.baseline_potential /\ rec.baseline_potential < hi

\* p2 is the 'primary' of the recording changed inside the window only
DiffersInWindowOnly(p2) ==
    /\ Len(p2) = Len(rec.primary)
    /\ \A i \in 1..Len(p2) :
          (i <= window[1] \/ i > window[2]) => p2[i] = rec.primary[i]

CommandMedian2x == Median2x(Slice(rec.command, window))

\* C9: in voltage clamp `base` is the median of 'command' over the window,
\* not of 'primary': two inputs differing only in the windowed 'primary'
\* samples (both with standard deviation <= 15 pA and passing recording QC)
\* return the same pair, and the pair follows the median of the windowed
\* 'command' across the bounds of either polarity range.
C9_VoltageClampBaseFromCommand ==
    (DonePulse /\ rec.clamp_mode = "vc" /\ recording_qc_pass(rec)
     /\ ~StdExceeds(Slice(rec.primary, window), 15))
    => /\ \A p2 \in Arrays(PrimarySamples("vc"), Len(rec.primary)) :
             (/\ DiffersInWindowOnly(p2)
              /\ ~StdExceeds(Slice(p2, window), 15)
              /\ recording_qc_pass([rec EXCEPT !.primary = p2]))
             => result = pulse_response_qc_pass([rec EXCEPT !.primary = p2],
                             window, n_spikes, adjacent_pulses)
       /\ (n_spikes # 0 /\ ~SomePulseWithin8ms) =>
             result = Return(
                 <<Median2xInside(CommandMedian2x, -85000, -45000)
                      /\ PotentialInside(-85000, -45000),
                   Median2xInside(CommandMedian2x, -60000, -45000)
                      /\ PotentialInside(-60000, -45000)>>)

\* a voltage-clamp response that passes for both signs, its 'command' median
\* at -59.999 mV and its 'primary' median at 10 pA, and fails for both once
\* the windowed 'command' is moved to -85 mV
C9_Witness ==
    /\ DonePulse /\ rec.clamp_mode = "vc"
    /\ result = Return(<<TRUE, TRUE>>)
    /\ CommandMedian2x = -119998
    /\ Median2x(Slice(rec.primary, window)) = 20
    /\ \E c2 \in Arrays(CommandSamples("vc"), Len(rec.command)) :
          /\ Median2x(Slice(c2, window)) = -170000
          /\ pulse_response_qc_pass([rec EXCEPT !.command = c2],
                 window, n_spikes, adjacent_pulses)
             = Return(<<FALSE, FALSE>>)

====
